---- MODULE Spec2Model ----
(***************************************************************************)
(* The ETL workshop notebook: the lru_cache-wrapped functions cached_pow,  *)
(* broken_session_lookup and cached_session_lookup, the chunked batcher,   *)
(* the simple extractor/transformer/loader pipeline and the recursive      *)
(* tree transformer _recursive_map_nested.                                 *)
(*                                                                         *)
(* functools.lru_cache and more_itertools.chunked are library code; they   *)
(* are modelled after their reference implementations (Lib/functools.py,   *)
(* more_itertools/more.py) at the places where the notebook uses them.     *)
(***************************************************************************)
EXTENDS Integers, Sequences, FiniteSets, TLC

VARIABLES
    cache,           \* function name -> the lru_cache object wrapping it
    trace,           \* the calls completed so far, with what each one did
    DESTINATION_DB,  \* the OrderedDict the loader fills and CrankySession reads
    misses_first,    \* the interpreter build counts a miss before the user call
    cell_pc,         \* position in the cached_pow notebook cell (0: not running it)
    thr,             \* per thread: the phase of its call of the cached function
    source_gen,      \* what is left of the iterator handed to chunked()
    chunk_n,         \* the n handed to chunked()
    batched,         \* the chunks batched_gen has yielded so far
    batch_input,     \* the items source_gen held when chunked() was called
    batch_done,      \* batched_gen has raised StopIteration
    root,            \* the node handed to _recursive_map_nested
    root_path,       \* the path handed to _recursive_map_nested
    schema,          \* the keys whose classification lookup succeeds
    f_gen,           \* the item and child producers handed to the root call
    stack,           \* the frames of _recursive_map_nested, the root's first
    events,          \* the events transformed_items has yielded so far
    tstatus,         \* "running", "done", or the exception that ended it
    etl_input,       \* the source records of the run of the pipeline
    events_gen,      \* the events the transformer has yet to yield to the loader
    gen_raises,      \* the transformer raises once these events are yielded
    f_loader,        \* the loader of the run
    max_chunk_size,  \* the chunk size of the chunked loader
    sa_session,      \* the session: events added and not flushed, rows written
    loaded,          \* the chunks the loader has received so far
    num_events,      \* the loader's counter
    lstatus,         \* "running", "returned", or the exception the loader let through
    gens,            \* the chained generators, the source's first: their frames
    main,            \* the consumer of the last generator: a for loop, next() calls, loader
    printed          \* what the consumer has received so far

vars == <<cache, trace, DESTINATION_DB, misses_first, cell_pc, thr,
          source_gen, chunk_n, batched, batch_input, batch_done,
          root, root_path, schema, f_gen, stack, events, tstatus,
          etl_input, events_gen, gen_raises, f_loader, max_chunk_size,
          sa_session, loaded, num_events, lstatus, gens, main, printed>>

cacheVars == <<cache, trace, DESTINATION_DB, misses_first, cell_pc, thr>>
batchVars == <<source_gen, chunk_n, batched, batch_input, batch_done>>
treeVars == <<root, root_path, schema, f_gen, stack, events, tstatus>>
etlVars == <<etl_input, events_gen, gen_raises, f_loader, max_chunk_size,
             sa_session, loaded, num_events, lstatus>>
genVars == <<gens, main, printed>>

(***************************************************************************)
(* Bounds of the model.                                                    *)
(***************************************************************************)
MaxCalls == 6
MaxLookups == 5
MaxThreadCalls == 3
MaxDepth == 1
MaxChunkSize == 4
MaxSource == 10
MaxN == 10

(***************************************************************************)
(* Constants of the notebook.                                              *)
(***************************************************************************)
maxsize == 4
range_stop == 20
chunk_size == 3

SOURCE_DATA == <<1, 2, 3, 4, 5, 6, 7, 8, 9, 10, 12, 13, 14>>

(***************************************************************************)
(* Values.  Arguments are tagged with their Python type, so that a key     *)
(* can be built from them the way _make_key does (by hashing each one).    *)
(***************************************************************************)
PyInt(n) == [type |-> "int", v |-> n]
PyStr(s) == [type |-> "str", v |-> s]
session == [type |-> "CrankySession", v |-> "DESTINATION_DB"]

RECURSIVE Pow(_, _)
Pow(x, n) == IF n = 0 THEN 1 ELSE x * Pow(x, n - 1)

(***************************************************************************)
(* The OrderedDict DESTINATION_DB: a sequence of key/value pairs.          *)
(***************************************************************************)
DbHas(db, k) == \E i \in 1..Len(db) : db[i].k = k
DbGet(db, k) == db[CHOOSE i \in 1..Len(db) : db[i].k = k].v
BugOverwriteMovesToEnd(db, k, v) ==
    Append(SelectSeq(db, LAMBDA e : e.k # k), [k |-> k, v |-> v])

DbSet(db, k, v) ==
    IF DbHas(db, k)
    THEN [i \in 1..Len(db) |-> IF db[i].k = k THEN [k |-> k, v |-> v] ELSE db[i]]
    ELSE Append(db, [k |-> k, v |-> v])

(***************************************************************************)
(* The simple pipeline, as functions from lists to lists.                  *)
(***************************************************************************)
extractor(source_data) == source_data

Cast(cast_func, t) == IF cast_func = "str" THEN ToString(t) ELSE t

BugScalesBeforeTranslating(iter_extractor, translate, scale, cast_func) ==
    [i \in 1..Len(iter_extractor) |->
        <<iter_extractor[i], Cast(cast_func, scale * iter_extractor[i] + translate)>>]

tranform_func_with_config(iter_extractor, translate, scale, cast_func) ==
    [i \in 1..Len(iter_extractor) |->
        <<iter_extractor[i], Cast(cast_func, scale * (iter_extractor[i] + translate))>>]

(* functools.partial(tranform_func_with_config, **config): the keyword    *)
(* arguments of the configuration frozen, the others at their defaults.    *)
defaults == [translate |-> 0, scale |-> 1, cast_func |-> "int"]

config_1 == [translate |-> 1, scale |-> 2]
config_2 == [scale |-> -1, cast_func |-> "str"]

keywords(config) ==
    [k \in DOMAIN defaults |-> IF k \in DOMAIN config THEN config[k] ELSE defaults[k]]

partial_transform(config, iter_extractor) ==
    tranform_func_with_config(iter_extractor, keywords(config).translate,
                              keywords(config).scale, keywords(config).cast_func)

RECURSIVE loader(_, _)
loader(iter_transformer, db) ==
    IF iter_transformer = <<>> THEN db
    ELSE LET item == Head(iter_transformer)
         IN  loader(Tail(iter_transformer), DbSet(db, ToString(item[1]), item[2]))

(* process(extractor, transform, loader), transform being the partial     *)
(* function of a configuration, on the DESTINATION_DB it finds.            *)
process(config, db) == loader(partial_transform(config, extractor(SOURCE_DATA)), db)

(***************************************************************************)
(* The user functions the caches wrap.  Each returns its result, or the    *)
(* exception it raises.                                                    *)
(***************************************************************************)
Returned(v) == [ok |-> TRUE, value |-> v, error |-> ""]
Raised(e) == [ok |-> FALSE, value |-> <<>>, error |-> e]

pow_body(args) == Returned(Pow(args[1].v, args[2].v))

query(db, idx) == IF DbHas(db, idx) THEN Returned(DbGet(db, idx)) ELSE Raised("KeyError")

raw_session_lookup(args, db) == query(db, args[2].v)

partial_session_lookup(args, db) == raw_session_lookup(<<session>> \o args, db)

user_function(fn, args, db) ==
    CASE fn = "cached_pow" -> pow_body(args)
      [] fn = "broken_session_lookup" -> raw_session_lookup(args, db)
      [] fn = "cached_session_lookup" -> partial_session_lookup(args, db)

(***************************************************************************)
(* functools.lru_cache.  The cache object keeps its entries in recency     *)
(* order, least recently used first.                                       *)
(***************************************************************************)
lru_cache(m) == [maxsize |-> m, entries |-> <<>>, hits |-> 0, misses |-> 0]

BugEverythingHashable(a) == FALSE

hash_raises(a) == a.type = "CrankySession"

make_key(args) ==
    IF \E i \in 1..Len(args) : hash_raises(args[i])
    THEN Raised("RuntimeError")
    ELSE Returned(args)

BugKeyIsFirstArgument(entries, key) ==
    IF \E i \in 1..Len(entries) : entries[i].key[1] = key[1]
    THEN CHOOSE i \in 1..Len(entries) : entries[i].key[1] = key[1]
    ELSE 0

KeyIndex(entries, key) ==
    IF \E i \in 1..Len(entries) : entries[i].key = key
    THEN CHOOSE i \in 1..Len(entries) : entries[i].key = key
    ELSE 0

Without(s, i) == [j \in 1..(Len(s) - 1) |-> IF j < i THEN s[j] ELSE s[j + 1]]

BugNoRefreshOnHit(entries, i) == entries

move_to_end(entries, i) == Append(Without(entries, i), entries[i])

cache_hit(c, key) ==
    [c EXCEPT !.entries = move_to_end(@, KeyIndex(@, key)), !.hits = @ + 1]

BugCountsMissTwice(c, now) == [c EXCEPT !.misses = @ + 1]

(* misses is counted before the user call by some interpreter builds and  *)
(* after it by others.                                                     *)
count_miss(c, now) == IF now THEN [c EXCEPT !.misses = @ + 1] ELSE c

BugEvictNewest(entries, m) ==
    IF Len(entries) >= m THEN SubSeq(entries, 1, Len(entries) - 1) ELSE entries

BugNoEvict(entries, m) == entries

make_room(entries, m) == IF Len(entries) >= m THEN Tail(entries) ELSE entries

BugStoreUnchecked(c, key, result) ==
    [c EXCEPT !.entries = Append(make_room(@, c.maxsize), [key |-> key, result |-> result])]

cache_store(c, key, result) ==
    IF KeyIndex(c.entries, key) # 0 THEN c
    ELSE [c EXCEPT !.entries = Append(make_room(@, c.maxsize),
                                      [key |-> key, result |-> result])]

BugStoreRaised(c, key, error) ==
    [c EXCEPT !.entries = Append(make_room(@, c.maxsize), [key |-> key, result |-> error])]

(* The user function raised: nothing is stored.                            *)
on_raise(c, key, error) == c

Keys(c) == {c.entries[i].key : i \in 1..Len(c.entries)}

EvictedBy(old, new) ==
    LET gone == {i \in 1..Len(old.entries) : old.entries[i].key \notin Keys(new)}
    IN  [i \in 1..Cardinality(gone) |->
            old.entries[CHOOSE j \in gone : Cardinality({g \in gone : g < j}) = i - 1].key]

Call(fn, args, outcome, error, result, evicted, invoked) ==
    [fn |-> fn, args |-> args, outcome |-> outcome, error |-> error,
     result |-> result, evicted |-> evicted, invoked |-> invoked]

BugRevalidates(fn, args, c, db, before) ==
    LET k == make_key(args)
        i == KeyIndex(c.entries, k.value)
        r == user_function(fn, args, db)
        missed == count_miss(c, before)
        failed == on_raise(missed, k.value, r.error)
        stored == count_miss(cache_store(missed, k.value, r.value), ~before)
    IN  IF ~k.ok
        THEN [c |-> c,
              call |-> Call(fn, args, "raise", k.error, <<>>, <<>>, FALSE)]
        ELSE IF i # 0
        THEN [c |-> cache_hit(c, k.value),
              call |-> Call(fn, args, "hit", "",
                            IF r.ok THEN r.value ELSE c.entries[i].result, <<>>, r.ok)]
        ELSE IF ~r.ok
        THEN [c |-> failed,
              call |-> Call(fn, args, "raise", r.error, <<>>, EvictedBy(c, failed), TRUE)]
        ELSE [c |-> stored,
              call |-> Call(fn, args, "miss", "", r.value, EvictedBy(c, stored), TRUE)]

(* One whole call of the wrapper by a single caller: the cache afterwards *)
(* and the record of what the call did.                                    *)
lru_wrapper(fn, args, c, db, before) ==
    LET k == make_key(args)
        i == KeyIndex(c.entries, k.value)
        r == user_function(fn, args, db)
        missed == count_miss(c, before)
        failed == on_raise(missed, k.value, r.error)
        stored == count_miss(cache_store(missed, k.value, r.value), ~before)
    IN  IF ~k.ok
        THEN [c |-> c,
              call |-> Call(fn, args, "raise", k.error, <<>>, <<>>, FALSE)]
        ELSE IF i # 0
        THEN [c |-> cache_hit(c, k.value),
              call |-> Call(fn, args, "hit", "", c.entries[i].result, <<>>, FALSE)]
        ELSE IF ~r.ok
        THEN [c |-> failed,
              call |-> Call(fn, args, "raise", r.error, <<>>, EvictedBy(c, failed), TRUE)]
        ELSE [c |-> stored,
              call |-> Call(fn, args, "miss", "", r.value, EvictedBy(c, stored), TRUE)]

(***************************************************************************)
(* Initial states.                                                         *)
(***************************************************************************)
Fns == {"cached_pow", "broken_session_lookup", "cached_session_lookup"}
Threads == {"t1", "t2"}

Capacities == 1..maxsize

IdleThreads == [t \in Threads |-> [pc |-> "idle", args |-> <<>>, result |-> <<>>]]

Session(new, rows, flushes) == [new |-> new, rows |-> rows, flushes |-> flushes]

GenIdle ==
    /\ gens = <<>>
    /\ main = [kind |-> "for", next_left |-> 0, pc |-> "done"]
    /\ printed = <<>>

EtlIdle ==
    /\ etl_input = <<>>
    /\ events_gen = <<>>
    /\ gen_raises = FALSE
    /\ f_loader = "loader"
    /\ max_chunk_size = chunk_size
    /\ sa_session = Session(<<>>, <<>>, 0)
    /\ loaded = <<>>
    /\ num_events = 0
    /\ lstatus = "returned"

TreeIdle ==
    /\ root = <<>>
    /\ root_path = <<>>
    /\ schema = {}
    /\ f_gen = <<>>
    /\ stack = <<>>
    /\ events = <<>>
    /\ tstatus = "done"

BatchIdle ==
    /\ TreeIdle
    /\ source_gen = <<>>
    /\ chunk_n = chunk_size
    /\ batched = <<>>
    /\ batch_input = <<>>
    /\ batch_done = TRUE
    /\ EtlIdle

CacheInit(m, builds) ==
    /\ cache = [fn \in Fns |-> lru_cache(m)]
    /\ trace = <<>>
    /\ misses_first \in builds
    /\ thr = IdleThreads

(* DESTINATION_DB as process(extractor, transform_2, loader) leaves it,    *)
(* which is how the session cells find it.                                 *)
DbAfterConfig2 == process(config_2, <<>>)

(***************************************************************************)
(* cached_pow: any calls, or the notebook cell's calls in their order.     *)
(***************************************************************************)
PowArgs == {<<PyInt(2), PyInt(n)>> : n \in 3..7}

CachedPowCell ==
    [i \in 1..12 |-> <<PyInt(2), PyInt(<<3, 4, 3, 3, 4, 4, 4, 5, 6, 7, 7, 3>>[i])>>]

InitPow ==
    /\ \/ cell_pc = 0 /\ \E m \in Capacities : CacheInit(m, {TRUE})
       \/ cell_pc = 1 /\ CacheInit(maxsize, {TRUE})
    /\ DESTINATION_DB = <<>>
    /\ BatchIdle
    /\ GenIdle

DoCall(fn, args) ==
    LET done == lru_wrapper(fn, args, cache[fn], DESTINATION_DB, misses_first)
    IN  /\ cache' = [cache EXCEPT ![fn] = done.c]
        /\ trace' = Append(trace, done.call)

cached_pow ==
    /\ cell_pc = 0
    /\ Len(trace) < MaxCalls
    /\ \E args \in PowArgs : DoCall("cached_pow", args)
    /\ UNCHANGED <<DESTINATION_DB, misses_first, cell_pc, thr, batchVars, treeVars, etlVars, genVars>>

cached_pow_cell ==
    /\ cell_pc \in 1..Len(CachedPowCell)
    /\ DoCall("cached_pow", CachedPowCell[cell_pc])
    /\ cell_pc' = cell_pc + 1
    /\ UNCHANGED <<DESTINATION_DB, misses_first, thr, batchVars, treeVars, etlVars, genVars>>

NextPow == cached_pow \/ cached_pow_cell

SpecPow == InitPow /\ [][NextPow]_vars

(***************************************************************************)
(* The session lookups: broken_session_lookup(session, idx) and            *)
(* cached_session_lookup(idx), over the DESTINATION_DB of the notebook.    *)
(* "11" is no key of it: SOURCE_DATA has no 11.                            *)
(***************************************************************************)
Idx == {"1", "2", "3", "11"}

InitSession ==
    /\ cell_pc = 0
    /\ \E m \in Capacities : CacheInit(m, BOOLEAN)
    /\ DESTINATION_DB = DbAfterConfig2
    /\ BatchIdle
    /\ GenIdle

broken_session_lookup ==
    /\ Len(trace) < MaxLookups
    /\ \E idx \in {"1", "11"} : DoCall("broken_session_lookup", <<session, PyStr(idx)>>)
    /\ UNCHANGED <<DESTINATION_DB, misses_first, cell_pc, thr, batchVars, treeVars, etlVars, genVars>>

cached_session_lookup ==
    /\ Len(trace) < MaxLookups
    /\ \E idx \in Idx : DoCall("cached_session_lookup", <<PyStr(idx)>>)
    /\ UNCHANGED <<DESTINATION_DB, misses_first, cell_pc, thr, batchVars, treeVars, etlVars, genVars>>

NextSession == broken_session_lookup \/ cached_session_lookup

SpecSession == InitSession /\ [][NextSession]_vars

(***************************************************************************)
(* What the trace says about a cache, without looking into the cache:      *)
(* the keys stored before call i, and when each was last used.             *)
(***************************************************************************)
Max(S) == CHOOSE x \in S : \A y \in S : y <= x

Range(s) == {s[i] : i \in 1..Len(s)}

Used(fn, key, j) ==
    /\ trace[j].fn = fn
    /\ trace[j].outcome \in {"hit", "miss"}
    /\ trace[j].args = key

StoredBefore(fn, i) ==
    {trace[j].args : j \in
        {j \in 1..(i - 1) :
            /\ trace[j].fn = fn
            /\ trace[j].outcome = "miss"
            /\ \A l \in (j + 1)..(i - 1) :
                  trace[l].fn = fn => trace[j].args \notin Range(trace[l].evicted)}}

LastUse(fn, key, i) == Max({j \in 1..(i - 1) : Used(fn, key, j)})

LeastRecentlyUsed(fn, i) ==
    CHOOSE k \in StoredBefore(fn, i) :
        \A k2 \in StoredBefore(fn, i) : LastUse(fn, k, i) <= LastUse(fn, k2, i)

FirstStored(fn, i) ==
    CHOOSE k \in StoredBefore(fn, i) :
        \A k2 \in StoredBefore(fn, i) :
            Max({j \in 1..(i - 1) : trace[j].fn = fn /\ trace[j].outcome = "miss"
                                    /\ trace[j].args = k})
            <= Max({j \in 1..(i - 1) : trace[j].fn = fn /\ trace[j].outcome = "miss"
                                       /\ trace[j].args = k2})

PowKey(n) == <<PyInt(2), PyInt(n)>>

TraceArgs == [i \in 1..Len(trace) |-> trace[i].args]

PowCalls(ns) == [i \in 1..Len(ns) |-> PowKey(ns[i])]

IsPrefix(s, t) == Len(s) <= Len(t) /\ SubSeq(t, 1, Len(s)) = s

(***************************************************************************)
(* C1. A miss that finds the cache full evicts exactly one entry, the one  *)
(* whose last use (hit or insertion) is the oldest, and no other call      *)
(* evicts anything; in the notebook cell (maxsize 4) the tenth call,       *)
(* cached_pow(2, 7), evicts (2, 3), so that cached_pow(2, 7) then hits     *)
(* and cached_pow(2, 3) is evaluated again.                                *)
(***************************************************************************)
C1_EvictsLeastRecentlyUsed ==
    /\ \A i \in 1..Len(trace) :
          LET e == trace[i]
          IN  IF e.outcome = "miss"
                 /\ Cardinality(StoredBefore(e.fn, i)) >= cache[e.fn].maxsize
              THEN e.evicted = <<LeastRecentlyUsed(e.fn, i)>>
              ELSE e.evicted = <<>>
    /\ Keys(cache["cached_pow"]) = StoredBefore("cached_pow", Len(trace) + 1)
    /\ cell_pc > 10 => trace[10].evicted = <<PowKey(3)>>
    /\ cell_pc > 11 => trace[11].outcome = "hit" /\ ~trace[11].invoked
    /\ cell_pc > 12 => trace[12].outcome = "miss" /\ trace[12].invoked

(* An eviction of a key that was not the first one stored: an entry that  *)
(* was hit outlived one inserted after it.                                 *)
C1_Witness ==
    \E i \in 1..Len(trace) :
        /\ trace[i].evicted # <<>>
        /\ trace[i].evicted # <<FirstStored(trace[i].fn, i)>>

(***************************************************************************)
(* C2 as stated. With capacity 2 and the calls (2,3), (2,4), (2,3), (2,5), *)
(* (2,4), (2,3) in this order: the third is a hit, the fourth a miss that  *)
(* evicts (2,4), the fifth a miss and the sixth a hit.                     *)
(***************************************************************************)
C2_AsStated ==
    (cache["cached_pow"].maxsize = 2 /\ TraceArgs = PowCalls(<<3, 4, 3, 5, 4, 3>>))
    => /\ trace[3].outcome = "hit"
       /\ trace[4].outcome = "miss" /\ trace[4].evicted = <<PowKey(4)>>
       /\ trace[5].outcome = "miss" /\ trace[5].invoked
       /\ trace[6].outcome = "hit"

(***************************************************************************)
(* C2 as amended. With capacity 2, after the calls (2,3), (2,4), (2,3),    *)
(* (2,5) the third is a hit and the fourth a miss that evicts (2,4); as    *)
(* the next call, (2,4) is a miss that invokes the computation and (2,3)   *)
(* is a hit. Called one after the other, (2,3) then (2,4) are a hit and a  *)
(* miss, but (2,4) then (2,3) are two misses: the miss of (2,4) evicts     *)
(* (2,3).                                                                  *)
(***************************************************************************)
C2_Capacity2Scenario ==
    (cache["cached_pow"].maxsize = 2 /\ IsPrefix(PowCalls(<<3, 4, 3, 5>>), TraceArgs))
    => /\ trace[3].outcome = "hit" /\ ~trace[3].invoked
       /\ trace[4].outcome = "miss" /\ trace[4].evicted = <<PowKey(4)>>
       /\ (Len(trace) >= 5 /\ trace[5].args = PowKey(4))
            => trace[5].outcome = "miss" /\ trace[5].invoked
       /\ (Len(trace) >= 5 /\ trace[5].args = PowKey(3))
            => trace[5].outcome = "hit" /\ ~trace[5].invoked
       /\ (Len(trace) >= 6 /\ trace[5].args = PowKey(3) /\ trace[6].args = PowKey(4))
            => trace[6].outcome = "miss" /\ trace[6].invoked
       /\ (Len(trace) >= 6 /\ trace[5].args = PowKey(4) /\ trace[6].args = PowKey(3))
            => /\ trace[5].evicted = <<PowKey(3)>>
               /\ trace[6].outcome = "miss" /\ trace[6].invoked

C2_Witness ==
    /\ cache["cached_pow"].maxsize = 2
    /\ TraceArgs = PowCalls(<<3, 4, 3, 5, 4, 3>>)
    /\ trace[6].outcome = "miss"

(***************************************************************************)
(* C3. Every call of cached_pow(x, n) returns x ** n; a call whose         *)
(* arguments are stored is a hit that returns the stored result without    *)
(* invoking the function, and a call whose arguments are not stored is a   *)
(* miss that invokes it.                                                   *)
(***************************************************************************)
C3_ReturnsComputedValue ==
    \A i \in 1..Len(trace) :
        LET e == trace[i]
        IN  e.fn = "cached_pow" =>
                /\ e.outcome \in {"hit", "miss"}
                /\ e.result = Pow(e.args[1].v, e.args[2].v)
                /\ e.args \in StoredBefore(e.fn, i) => e.outcome = "hit" /\ ~e.invoked
                /\ e.args \notin StoredBefore(e.fn, i) => e.outcome = "miss" /\ e.invoked

(* (2, 4) is hit after another key was stored in between.                  *)
C3_Witness ==
    \E i, j, l \in 1..Len(trace) :
        /\ i < j /\ j < l
        /\ trace[i].args = PowKey(4) /\ trace[i].outcome = "miss"
        /\ trace[j].args = PowKey(3) /\ trace[j].outcome = "miss"
        /\ trace[l].args = PowKey(4) /\ trace[l].outcome = "hit"
        /\ trace[l].result = 16

(***************************************************************************)
(* C4. Whatever the calls did (hits, misses, computations that raised),    *)
(* no cache stores more entries than its maxsize, and maxsize never        *)
(* changes.                                                                *)
(***************************************************************************)
C4_BoundedByCapacity ==
    /\ [](\A fn \in Fns : /\ Len(cache[fn].entries) <= cache[fn].maxsize
                          /\ Cardinality(Keys(cache[fn])) = Len(cache[fn].entries))
    /\ [][\A fn \in Fns : cache'[fn].maxsize = cache[fn].maxsize]_vars

(* A full cache after a hit, an eviction and a computation that raised.    *)
C4_Witness ==
    /\ Len(cache["cached_session_lookup"].entries) = cache["cached_session_lookup"].maxsize
    /\ \E i, j, l \in 1..Len(trace) :
          /\ trace[i].outcome = "hit"
          /\ trace[j].evicted # <<>>
          /\ trace[l].outcome = "raise" /\ trace[l].invoked

(***************************************************************************)
(* C5. When the computation raises for its arguments, the caller gets that *)
(* error, the entries of the cache and their order are as before the call, *)
(* and every later call with the same arguments invokes the computation    *)
(* again.                                                                  *)
(***************************************************************************)
Completed(fn) ==
    /\ Len(trace') = Len(trace) + 1
    /\ trace'[Len(trace')].fn = fn

ComputationRaises(i) ==
    /\ make_key(trace[i].args).ok
    /\ trace[i].args \notin StoredBefore(trace[i].fn, i)
    /\ ~user_function(trace[i].fn, trace[i].args, DESTINATION_DB).ok

C5_RaisedIsNotCached ==
    /\ [](\A i \in 1..Len(trace) :
            ComputationRaises(i) =>
                /\ trace[i].outcome = "raise" /\ trace[i].invoked
                /\ trace[i].error =
                      user_function(trace[i].fn, trace[i].args, DESTINATION_DB).error
                /\ trace[i].args \notin StoredBefore(trace[i].fn, i + 1)
                /\ trace[i].args \notin Keys(cache[trace[i].fn])
                /\ \A j \in (i + 1)..Len(trace) :
                      (trace[j].fn = trace[i].fn /\ trace[j].args = trace[i].args)
                          => trace[j].invoked)
    /\ [][\A fn \in Fns :
            (Completed(fn) /\ trace'[Len(trace')].outcome = "raise")
                => /\ cache'[fn].entries = cache[fn].entries
                   /\ cache'[fn].hits = cache[fn].hits]_vars

(* cached_session_lookup("11") raised KeyError twice in a row, with an     *)
(* entry stored before.                                                    *)
C5_Witness ==
    \E i \in 2..(Len(trace) - 1) :
        /\ trace[i - 1].fn = "cached_session_lookup" /\ trace[i - 1].outcome = "miss"
        /\ trace[i].fn = "cached_session_lookup" /\ trace[i].args = <<PyStr("11")>>
        /\ trace[i].error = "KeyError"
        /\ trace[i + 1].fn = "cached_session_lookup" /\ trace[i + 1].args = <<PyStr("11")>>
        /\ trace[i + 1].error = "KeyError" /\ trace[i + 1].invoked

(***************************************************************************)
(* C6. broken_session_lookup(session, idx) fails while the key is made     *)
(* (the session cannot be hashed): the caller gets RuntimeError,           *)
(* session.query is not invoked and no cache changes, its counters         *)
(* included; cached_session_lookup(idx), with the session bound by         *)
(* functools.partial, returns DESTINATION_DB[idx] for every idx in it.     *)
(***************************************************************************)
C6_UnhashableKeyFails ==
    /\ [](\A i \in 1..Len(trace) :
            /\ trace[i].fn = "broken_session_lookup" =>
                  /\ trace[i].outcome = "raise" /\ trace[i].error = "RuntimeError"
                  /\ ~trace[i].invoked
            /\ (trace[i].fn = "cached_session_lookup"
                /\ DbHas(DESTINATION_DB, trace[i].args[1].v)) =>
                  /\ trace[i].outcome \in {"hit", "miss"}
                  /\ trace[i].result = DbGet(DESTINATION_DB, trace[i].args[1].v))
    /\ [](cache["broken_session_lookup"] = lru_cache(cache["broken_session_lookup"].maxsize))
    /\ [][Completed("broken_session_lookup") => cache' = cache]_vars

(* Both lookups of "1": the broken one raised, the partial one returned.  *)
C6_Witness ==
    \E i, j \in 1..Len(trace) :
        /\ trace[i].fn = "broken_session_lookup" /\ trace[i].args = <<session, PyStr("1")>>
        /\ trace[i].outcome = "raise"
        /\ trace[j].fn = "cached_session_lookup" /\ trace[j].args = <<PyStr("1")>>
        /\ trace[j].outcome = "miss" /\ trace[j].result = "-1"

(***************************************************************************)
(* Batching: batched_gen = more_itertools.chunked(source_gen, chunk_size), *)
(* which is iter(partial(take, n, iter(iterable)), []): each next() takes  *)
(* up to n items, and an empty take ends the iteration.                    *)
(***************************************************************************)
range(n) == [i \in 1..n |-> i - 1]

Min(a, b) == IF a <= b THEN a ELSE b

BugTakeOneLess(n, iterable) == SubSeq(iterable, 1, Min(n, Len(iterable)) - 1)

take(n, iterable) == SubSeq(iterable, 1, Min(n, Len(iterable)))

consumed(n, iterable) == SubSeq(iterable, Min(n, Len(iterable)) + 1, Len(iterable))

BugNoSentinel(chunk) == FALSE

is_sentinel(chunk) == chunk = <<>>

InitBatch ==
    /\ \E len \in 0..range_stop :
          /\ source_gen = range(len)
          /\ batch_input = range(len)
    /\ chunk_n \in 1..MaxChunkSize
    /\ batched = <<>>
    /\ batch_done = FALSE
    /\ cell_pc = 0
    /\ CacheInit(maxsize, {TRUE})
    /\ DESTINATION_DB = <<>>
    /\ TreeIdle
    /\ EtlIdle
    /\ GenIdle

batched_gen_next ==
    /\ ~batch_done
    /\ LET chunk == take(chunk_n, source_gen)
       IN  /\ source_gen' = consumed(chunk_n, source_gen)
           /\ batch_done' = is_sentinel(chunk)
           /\ batched' = IF is_sentinel(chunk) THEN batched ELSE Append(batched, chunk)
    /\ UNCHANGED <<chunk_n, batch_input, cacheVars, treeVars, etlVars, genVars>>

NextBatch == batched_gen_next

SpecBatch == InitBatch /\ [][NextBatch]_vars

RECURSIVE Flatten(_)
Flatten(chunks) == IF chunks = <<>> THEN <<>> ELSE Head(chunks) \o Flatten(Tail(chunks))

Ceil(n, k) == (n + k - 1) \div k

(***************************************************************************)
(* C8. For an input of n >= 1 items and a chunk size k >= 1 the batcher    *)
(* yields ceil(n / k) chunks, all of k items except the last, which has    *)
(* 1..k, and the chunks concatenated in the order yielded are the input;   *)
(* range(20) in chunks of 3 gives six chunks of 3 and one of 2. While it   *)
(* runs, the chunks yielded and the items not yet taken are the input.     *)
(***************************************************************************)
C8_ChunksPartitionInput ==
    /\ Flatten(batched) \o source_gen = batch_input
    /\ (batch_done /\ Len(batch_input) >= 1) =>
          /\ Len(batched) = Ceil(Len(batch_input), chunk_n)
          /\ \A i \in 1..(Len(batched) - 1) : Len(batched[i]) = chunk_n
          /\ Len(batched[Len(batched)]) \in 1..chunk_n
          /\ Flatten(batched) = batch_input
    /\ (batch_done /\ batch_input = range(range_stop) /\ chunk_n = chunk_size) =>
          [i \in 1..Len(batched) |-> Len(batched[i])] = <<3, 3, 3, 3, 3, 3, 2>>

C8_Witness ==
    /\ batch_done
    /\ batch_input = range(range_stop)
    /\ chunk_n = chunk_size
    /\ Len(batched) = 7
    /\ batched[7] = <<18, 19>>

(***************************************************************************)
(* C9. No chunk the batcher yields is empty, and for an empty input it     *)
(* yields no chunk at all.                                                 *)
(***************************************************************************)
C9_NoEmptyChunk ==
    /\ \A i \in 1..Len(batched) : Len(batched[i]) >= 1
    /\ batch_input = <<>> => batched = <<>>

(* The iteration over an empty input has ended, and so has one over an    *)
(* input that fills its last chunk.                                        *)
C9_Witness ==
    /\ batch_done
    /\ \/ batch_input = <<>> /\ batched = <<>>
       \/ Len(batch_input) = 2 * chunk_n /\ Len(batched) = 2

(***************************************************************************)
(* cached_pow called from two threads.  The wrapper holds its lock while   *)
(* it looks the key up (and refreshes a hit) and while it stores a result, *)
(* and calls the wrapped function between the two, outside the lock.       *)
(***************************************************************************)
InFlight == {t \in Threads : thr[t].pc # "idle"}

InitThreads ==
    /\ cell_pc = 0
    /\ \E m \in Capacities : CacheInit(m, BOOLEAN)
    /\ DESTINATION_DB = <<>>
    /\ BatchIdle
    /\ GenIdle

wrapper_lookup(t) ==
    /\ thr[t].pc = "idle"
    /\ Len(trace) + Cardinality(InFlight) < MaxThreadCalls
    /\ \E args \in PowArgs :
          LET c == cache["cached_pow"]
              k == make_key(args)
              i == KeyIndex(c.entries, k.value)
          IN  IF i # 0
              THEN /\ cache' = [cache EXCEPT !["cached_pow"] = cache_hit(c, k.value)]
                   /\ trace' = Append(trace, Call("cached_pow", args, "hit", "",
                                                  c.entries[i].result, <<>>, FALSE))
                   /\ thr' = thr
              ELSE /\ cache' = [cache EXCEPT !["cached_pow"] = count_miss(c, misses_first)]
                   /\ trace' = trace
                   /\ thr' = [thr EXCEPT ![t] = [pc |-> "call", args |-> args,
                                                 result |-> <<>>]]
    /\ UNCHANGED <<DESTINATION_DB, misses_first, cell_pc, batchVars, treeVars, etlVars, genVars>>

wrapper_call(t) ==
    /\ thr[t].pc = "call"
    /\ thr' = [thr EXCEPT ![t] = [pc |-> "store", args |-> @.args,
                 result |-> user_function("cached_pow", @.args, DESTINATION_DB).value]]
    /\ UNCHANGED <<cache, trace, DESTINATION_DB, misses_first, cell_pc, batchVars, treeVars, etlVars, genVars>>

wrapper_store(t) ==
    /\ thr[t].pc = "store"
    /\ LET c == cache["cached_pow"]
           stored == count_miss(cache_store(c, thr[t].args, thr[t].result), ~misses_first)
       IN  /\ cache' = [cache EXCEPT !["cached_pow"] = stored]
           /\ trace' = Append(trace, Call("cached_pow", thr[t].args, "miss", "",
                                          thr[t].result, EvictedBy(c, stored), TRUE))
    /\ thr' = [thr EXCEPT ![t] = [pc |-> "idle", args |-> <<>>, result |-> <<>>]]
    /\ UNCHANGED <<DESTINATION_DB, misses_first, cell_pc, batchVars, treeVars, etlVars, genVars>>

NextThreads == \E t \in Threads : wrapper_lookup(t) \/ wrapper_call(t) \/ wrapper_store(t)

SpecThreads == InitThreads /\ [][NextThreads]_vars

(***************************************************************************)
(* C7 as stated. A call is one atomic unit: never have two callers with    *)
(* the same arguments both detected a miss and both invoked the            *)
(* computation.                                                            *)
(***************************************************************************)
C7_AsStated ==
    \A t1, t2 \in Threads :
        (t1 # t2 /\ thr[t1].pc = "store" /\ thr[t2].pc = "store")
            => thr[t1].args # thr[t2].args

(***************************************************************************)
(* C7 as amended. The lookup (with the refresh of a hit) and the           *)
(* insertion (with its eviction) are each atomic, and the computation      *)
(* runs between them outside the mutual exclusion, so two callers with     *)
(* the same arguments may both miss and both compute. In every             *)
(* interleaving the cache stays coherent: at most maxsize entries, no key  *)
(* stored twice, every stored and returned result is x ** n, the key of a  *)
(* call is stored when its insertion step ends, and hits + misses counts   *)
(* every call (no counter update is lost).                                 *)
(***************************************************************************)
Counted ==
    Len(trace) + (IF misses_first THEN Cardinality(InFlight) ELSE 0)

C7_CoherentUnderConcurrency ==
    /\ [](LET c == cache["cached_pow"]
          IN  /\ Len(c.entries) <= c.maxsize
              /\ Cardinality(Keys(c)) = Len(c.entries)
              /\ \A i \in 1..Len(c.entries) :
                    c.entries[i].result = Pow(c.entries[i].key[1].v, c.entries[i].key[2].v)
              /\ \A i \in 1..Len(trace) :
                    trace[i].result = Pow(trace[i].args[1].v, trace[i].args[2].v)
              /\ c.hits + c.misses = Counted)
    /\ [][\A t \in Threads :
            (thr[t].pc = "store" /\ thr'[t].pc = "idle")
                => /\ thr[t].args \in Keys(cache'["cached_pow"])
                   /\ cache'["cached_pow"].entries[Len(cache'["cached_pow"].entries)].key
                        = thr[t].args
                      \/ thr[t].args \in Keys(cache["cached_pow"])]_vars

(* Two calls with the same arguments both missed and both computed; the   *)
(* key is stored once.                                                     *)
C7_Witness ==
    /\ Len(trace) = 2
    /\ trace[1].args = trace[2].args
    /\ trace[1].outcome = "miss" /\ trace[1].invoked
    /\ trace[2].outcome = "miss" /\ trace[2].invoked
    /\ Len(cache["cached_pow"].entries) = 1
    /\ cache["cached_pow"].misses = 2

(***************************************************************************)
(* The tree transformer.  A node is a dict: a sequence of key/value        *)
(* entries in iteration order, a value being a scalar, a dict or a list    *)
(* of nodes.                                                               *)
(***************************************************************************)
Entry(k, v) == [k |-> k, v |-> v]
PyDict(node) == [type |-> "dict", v |-> node]
PyList(nodes) == [type |-> "list", v |-> nodes]

(* dict.get: <<>> for None, <<value>> for a value.                         *)
get(node, key) ==
    IF \E i \in 1..Len(node) : node[i].k = key
    THEN <<node[CHOOSE i \in 1..Len(node) : node[i].k = key].v>>
    ELSE <<>>

truthy(got) ==
    /\ got # <<>>
    /\ CASE got[1].type = "str" -> got[1].v # ""
         [] got[1].type = "int" -> got[1].v # 0
         [] OTHER -> got[1].v # <<>>

RECURSIVE join(_)
join(path) ==
    IF path = <<>> THEN ""
    ELSE IF Len(path) = 1 THEN path[1]
    ELSE path[1] \o "." \o join(Tail(path))

(* The two lines the notebook elides ("..."): the classification lookup    *)
(* of a path, which succeeds for the keys of the schema, and the value as  *)
(* a string.                                                               *)
node_info(path, k) ==
    IF k \in schema THEN <<[answer_type |-> "answer"]>> ELSE <<>>

str_value(v) == IF v.type = "int" THEN ToString(v.v) ELSE v.v

RECURSIVE my_gen_items(_, _)
my_gen_items(node, path) ==
    IF node = <<>> THEN <<>>
    ELSE LET k == Head(node).k
             v == Head(node).v
             rest == my_gen_items(Tail(node), path)
         IN  IF v.type \notin {"dict", "list"} /\ node_info(path, k) # <<>>
             THEN <<[path |-> join(path \o <<k>>),
                     answer_type |-> node_info(path, k)[1].answer_type,
                     value |-> str_value(v)]>> \o rest
             ELSE rest

RECURSIVE children_with_slug(_, _)
children_with_slug(children, path) ==
    IF children = <<>> THEN <<>>
    ELSE LET child == Head(children)
             child_slug == get(child, "slug")
             rest == children_with_slug(Tail(children), path)
         IN  IF truthy(child_slug)
             THEN <<[path |-> path \o <<child_slug[1].v>>, node |-> child]>> \o rest
             ELSE rest

my_gen_children(node, path) ==
    LET node_slug == get(node, "slug")
        children == get(node, "children")
    IN  IF truthy(node_slug) /\ truthy(children)
        THEN children_with_slug(children[1].v, path)
        ELSE <<>>

(* What is handed around as f_gen_items and f_gen_children: a function    *)
(* with its number of parameters, or the generator object a call of it     *)
(* returned.                                                               *)
Function(name, params) == [kind |-> "function", name |-> name, params |-> params]

generator(f) == [f EXCEPT !.kind = "generator"]

callable(f, nargs) == f.kind = "function" /\ f.params = nargs

apply(f, node, path) ==
    IF f.name = "my_gen_items" THEN my_gen_items(node, path)
    ELSE my_gen_children(node, path)

Frame(node, path, f_gen_items, f_gen_children) ==
    [node |-> node, path |-> path, f_gen_items |-> f_gen_items,
     f_gen_children |-> f_gen_children, gen_items |-> <<>>, gen_children |-> <<>>,
     pc |-> "start"]

(* The trees: nodes with or without a slug, own scalar items and a list of *)
(* children, to MaxDepth levels of children.                               *)
ItemChoices ==
    {<<>>,
     <<Entry("a", PyInt(1)), Entry("b", PyInt(2))>>,
     <<Entry("x", PyInt(3))>>}

SlugChoices == {<<>>, <<Entry("slug", PyStr("c"))>>, <<Entry("slug", PyStr("d"))>>}

Leaves == {slug \o items : slug \in SlugChoices, items \in ItemChoices}

SecondChildren ==
    {<<Entry("slug", PyStr("d")), Entry("x", PyInt(3))>>, <<Entry("x", PyInt(3))>>}

RECURSIVE Nodes(_)
Nodes(depth) ==
    IF depth = 0 THEN Leaves
    ELSE LET below == Nodes(depth - 1)
             lists == {<<>>} \cup {<<n>> : n \in below}
                             \cup {<<n, m>> : n \in below, m \in SecondChildren}
         IN  Leaves \cup {leaf \o <<Entry("children", PyList(children))>> :
                             leaf \in Leaves, children \in lists}

Schemas == {{"a", "b", "x"}, {"a", "x"}, {"a", "b", "x", "slug"}}

RootPaths == {<<>>, <<"form">>}

InitTree ==
    /\ root \in Nodes(MaxDepth)
    /\ root_path \in RootPaths
    /\ schema \in Schemas
    /\ f_gen \in {[items |-> Function("my_gen_items", 2),
                   children |-> Function("my_gen_children", params)] : params \in {0, 2}}
    /\ stack = <<Frame(root, root_path, f_gen.items, f_gen.children)>>
    /\ events = <<>>
    /\ tstatus = "running"
    /\ source_gen = <<>>
    /\ chunk_n = chunk_size
    /\ batched = <<>>
    /\ batch_input = <<>>
    /\ batch_done = TRUE
    /\ cell_pc = 0
    /\ CacheInit(maxsize, {TRUE})
    /\ DESTINATION_DB = <<>>
    /\ EtlIdle
    /\ GenIdle

Top == stack[Len(stack)]

BugNeverFalsy(node) == FALSE

(* not node                                                                *)
falsy(node) == node = <<>>

SetTop(frame) == [stack EXCEPT ![Len(stack)] = frame]

Return ==
    /\ stack' = SubSeq(stack, 1, Len(stack) - 1)
    /\ tstatus' = IF Len(stack) = 1 THEN "done" ELSE "running"

Raise(error) ==
    /\ stack' = stack
    /\ tstatus' = error

(* if not node: return;  gen_items = f_gen_items(node, path)               *)
frame_start ==
    /\ tstatus = "running" /\ Top.pc = "start"
    /\ IF falsy(Top.node) THEN Return
       ELSE IF ~callable(Top.f_gen_items, 2) THEN Raise("TypeError")
       ELSE /\ stack' = SetTop([Top EXCEPT !.pc = "items",
                   !.gen_items = apply(Top.f_gen_items, Top.node, Top.path)])
            /\ tstatus' = tstatus
    /\ UNCHANGED <<root, root_path, schema, f_gen, events, cacheVars, batchVars, etlVars, genVars>>

(* yield from gen_items                                                    *)
yield_item ==
    /\ tstatus = "running" /\ Top.pc = "items" /\ Top.gen_items # <<>>
    /\ events' = Append(events, Head(Top.gen_items))
    /\ stack' = SetTop([Top EXCEPT !.gen_items = Tail(@)])
    /\ UNCHANGED <<root, root_path, schema, f_gen, tstatus, cacheVars, batchVars, etlVars, genVars>>

(* gen_children = f_gen_children(node, path)                               *)
call_children ==
    /\ tstatus = "running" /\ Top.pc = "items" /\ Top.gen_items = <<>>
    /\ IF ~callable(Top.f_gen_children, 2) THEN Raise("TypeError")
       ELSE /\ stack' = SetTop([Top EXCEPT !.pc = "children",
                   !.gen_children = apply(Top.f_gen_children, Top.node, Top.path)])
            /\ tstatus' = tstatus
    /\ UNCHANGED <<root, root_path, schema, f_gen, events, cacheVars, batchVars, etlVars, genVars>>

(* for child_path, child_node in gen_children:                             *)
(*     yield from _recursive_map_nested(child_node, child_path,            *)
(*                                      gen_items, gen_children)           *)
(* The call hands down gen_items and gen_children, the generator objects,  *)
(* where the parameters are f_gen_items and f_gen_children.                *)
enter_child ==
    /\ tstatus = "running" /\ Top.pc = "children" /\ Top.gen_children # <<>>
    /\ LET child == Head(Top.gen_children)
       IN  stack' = Append(SetTop([Top EXCEPT !.gen_children = Tail(@)]),
                           Frame(child.node, child.path,
                                 generator(Top.f_gen_items),
                                 generator(Top.f_gen_children)))
    /\ UNCHANGED <<root, root_path, schema, f_gen, events, tstatus, cacheVars, batchVars, etlVars, genVars>>

frame_return ==
    /\ tstatus = "running" /\ Top.pc = "children" /\ Top.gen_children = <<>>
    /\ Return
    /\ UNCHANGED <<root, root_path, schema, f_gen, events, cacheVars, batchVars, etlVars, genVars>>

NextTree == frame_start \/ yield_item \/ call_children \/ enter_child \/ frame_return

SpecTree == InitTree /\ [][NextTree]_vars

EventPaths == [i \in 1..Len(events) |-> events[i].path]

(***************************************************************************)
(* C10 as stated. Traversing from the root, with an empty path, a node     *)
(* with own scalar items a: 1, b: 2 and one child with slug "c" holding    *)
(* x: 3 emits events with the paths ".a", ".b", ".c.x", in this order,     *)
(* and no other events.                                                    *)
(***************************************************************************)
ExampleTree ==
    <<Entry("slug", PyStr("d")), Entry("a", PyInt(1)), Entry("b", PyInt(2)),
      Entry("children", PyList(<<
          <<Entry("slug", PyStr("c")), Entry("x", PyInt(3))>> >>))>>

C10_AsStated ==
    (root = ExampleTree /\ root_path = <<>> /\ schema = {"a", "b", "x"}
        /\ tstatus # "running")
        => /\ tstatus = "done"
           /\ EventPaths = <<".a", ".b", ".c.x">>

(***************************************************************************)
(* The traversal the tree transformer is described to make: a node's own   *)
(* items, then each child's whole subtree, the children in their listed    *)
(* order, every node with the producers of the root call.                  *)
(***************************************************************************)
RECURSIVE Preorder(_, _), PreorderEach(_)
Preorder(node, path) ==
    IF node = <<>> THEN <<>>
    ELSE my_gen_items(node, path) \o PreorderEach(my_gen_children(node, path))

PreorderEach(children) ==
    IF children = <<>> THEN <<>>
    ELSE Preorder(Head(children).node, Head(children).path)
            \o PreorderEach(Tail(children))

Ended == tstatus # "running"

(***************************************************************************)
(* C11 as stated. For every tree the traversal emits the events of a       *)
(* node's own items before those of its descendants, visits the children   *)
(* in their listed order and emits all events of a child's subtree before  *)
(* the first event of the next sibling: a traversal that has ended has     *)
(* returned, and its events are those of the pre-order walk, in order.     *)
(***************************************************************************)
C11_AsStated ==
    Ended => /\ tstatus = "done"
             /\ events = Preorder(root, root_path)

(***************************************************************************)
(* C12 as stated. At every recursion depth the item producer and the child *)
(* producer of a call are the ones the caller supplied at the root call,   *)
(* and they are applied to the descendant's node and path.                 *)
(***************************************************************************)
C12_AsStated ==
    /\ tstatus \in {"running", "done"}
    /\ \A i \in 1..Len(stack) :
          /\ stack[i].f_gen_items = f_gen.items
          /\ stack[i].f_gen_children = f_gen.children
    /\ \A i \in 2..Len(stack) :
          stack[i].pc # "start" =>
              stack[i].gen_items \in
                  {SubSeq(my_gen_items(stack[i].node, stack[i].path), k,
                          Len(my_gen_items(stack[i].node, stack[i].path))) :
                     k \in 1..(Len(my_gen_items(stack[i].node, stack[i].path)) + 1)}

(***************************************************************************)
(* C13. Traversing an empty node yields no events and returns without      *)
(* calling the item producer or the child producer, whatever the path.     *)
(***************************************************************************)
C13_EmptyNodeYieldsNothing ==
    /\ [](\A i \in 1..Len(stack) :
            stack[i].node = <<>> =>
                /\ stack[i].pc = "start"
                /\ stack[i].gen_items = <<>>
                /\ stack[i].gen_children = <<>>)
    /\ [][(tstatus = "running" /\ Top.node = <<>>) =>
            /\ events' = events
            /\ stack' = SubSeq(stack, 1, Len(stack) - 1)
            /\ tstatus' = IF Len(stack) = 1 THEN "done" ELSE "running"]_vars
    /\ []((root = <<>> /\ Ended) => (tstatus = "done" /\ events = <<>>))

C13_Witness ==
    /\ root = <<>>
    /\ root_path = <<"form">>
    /\ tstatus = "done"
    /\ stack = <<>>
    /\ events = <<>>

(***************************************************************************)
(* C14 as stated. A node contributes children to the traversal only if it  *)
(* has a truthy slug and a non-empty children list; each child with a slug *)
(* of its own is visited with the path of its parent followed by the       *)
(* child's slug, a child without a slug is not visited, and the            *)
(* enumeration does not raise.                                             *)
(***************************************************************************)
ListedChildren(node) ==
    IF get(node, "children") = <<>> THEN {} ELSE Range(get(node, "children")[1].v)

C14_AsStated ==
    /\ tstatus \in {"running", "done"}
    /\ \A i \in 2..Len(stack) :
          LET parent == stack[i - 1]
              child == stack[i]
          IN  /\ truthy(get(parent.node, "slug"))
              /\ truthy(get(parent.node, "children"))
              /\ child.node \in ListedChildren(parent.node)
              /\ truthy(get(child.node, "slug"))
              /\ child.path = parent.path \o <<get(child.node, "slug")[1].v>>
    /\ \A i \in 1..Len(stack) :
          stack[i].pc = "children" =>
              \A j \in 1..Len(stack[i].gen_children) :
                  /\ stack[i].gen_children[j].node \in ListedChildren(stack[i].node)
                  /\ truthy(get(stack[i].gen_children[j].node, "slug"))

(***************************************************************************)
(* C15 as stated. Each scalar entry of a node yields the event of its      *)
(* joined path exactly when the classification lookup succeeds; a failed   *)
(* lookup skips that entry only, without raising, and the other entries of *)
(* the node and its children are still processed; dict and list entries    *)
(* yield no event.                                                         *)
(***************************************************************************)
RECURSIVE ScalarEntries(_, _)
ScalarEntries(node, path) ==
    {[path |-> join(path \o <<node[i].k>>), k |-> node[i].k] :
        i \in {j \in 1..Len(node) : node[j].v.type \notin {"dict", "list"}}}
    \cup UNION {ScalarEntries(c.node, c.path) : c \in Range(my_gen_children(node, path))}

C15_AsStated ==
    Ended =>
        /\ tstatus = "done"
        /\ \A e \in ScalarEntries(root, root_path) :
              (e.path \in Range(EventPaths)) <=> (e.k \in schema)
        /\ Range(EventPaths) \subseteq {e.path : e \in ScalarEntries(root, root_path)}

(***************************************************************************)
(* C16 as stated. A node without a slug or without children, or with       *)
(* children that lack a slug, counts as having no children: the traversal  *)
(* does not raise on it and goes on with the remaining siblings.           *)
(***************************************************************************)
Malformed(node) ==
    \/ get(node, "slug") = <<>>
    \/ get(node, "children") = <<>>
    \/ \E child \in ListedChildren(node) : get(child, "slug") = <<>>

C16_AsStated ==
    Malformed(root) =>
        /\ tstatus \in {"running", "done"}
        /\ \A i \in 1..Len(stack) :
              stack[i].pc = "children" =>
                  /\ (get(stack[i].node, "slug") = <<>>
                        \/ get(stack[i].node, "children") = <<>>)
                          => stack[i].gen_children = <<>>
                  /\ \A j \in 1..Len(stack[i].gen_children) :
                        get(stack[i].gen_children[j].node, "slug") # <<>>

(***************************************************************************)
(* Loading.  The events come lazily from transformer(extractor(source)),   *)
(* and the generator may raise once it has yielded them, as                *)
(* transformed_items does.  The loaders: loader writes each item into      *)
(* DESTINATION_DB; naive_loader adds every event to the session and        *)
(* flushes once at the end; individual_flush_loader flushes each event;    *)
(* the chunked loader takes chunked(events, max_chunk_size) and writes and *)
(* flushes chunk by chunk.                                                 *)
(***************************************************************************)
BugTransformerCubes(iter_extractor) ==
    [i \in 1..Len(iter_extractor) |->
        <<iter_extractor[i], iter_extractor[i] * iter_extractor[i] * iter_extractor[i]>>]

transformer(iter_extractor) ==
    [i \in 1..Len(iter_extractor) |->
        <<iter_extractor[i], iter_extractor[i] * iter_extractor[i]>>]

(* next() of the generator: its next event, the exception it raises, or    *)
(* StopIteration.                                                          *)
next_event(gen, raises) ==
    IF gen # <<>> THEN Returned(Head(gen))
    ELSE IF raises THEN Raised("TypeError")
    ELSE Raised("StopIteration")

BugYieldsPartialChunk(n, gen, raises) == Returned(take(n, gen))

(* next() of chunked(events, n): take(n, events) is list(islice(events,    *)
(* n)), so an exception of the generator while the chunk is collected      *)
(* passes through and the items collected for that chunk are dropped.      *)
next_chunk(n, gen, raises) ==
    IF raises /\ Len(gen) < n THEN Raised("TypeError")
    ELSE Returned(take(n, gen))

BugAddForgets(s, event) == s

(* session.add(event)                                                      *)
session_add(s, event) == [s EXCEPT !.new = Append(@, event)]

(* the bulk write of a chunk: all its events enter the session at once     *)
bulk_save(s, chunk) == [s EXCEPT !.new = @ \o chunk]

BugFlushKeepsEvents(s) == Session(s.new, s.rows \o s.new, s.flushes + 1)

(* session.flush(): what was added is written and released                 *)
session_flush(s) == Session(<<>>, s.rows \o s.new, s.flushes + 1)

(* A flush either succeeds or raises with nothing of it written.           *)
flush(s) ==
    {[ok |-> TRUE, session |-> session_flush(s), error |-> ""],
     [ok |-> FALSE, session |-> s, error |-> "PersistenceError"]}

Loaders == {"loader", "naive_loader", "individual_flush_loader", "chunked_loader"}

Sources == {[i \in 1..n |-> i] : n \in 0..MaxSource} \cup {SOURCE_DATA}

InitLoad ==
    /\ etl_input \in Sources
    /\ events_gen = transformer(extractor(etl_input))
    /\ gen_raises \in BOOLEAN
    /\ f_loader \in Loaders
    /\ max_chunk_size \in IF f_loader = "chunked_loader" THEN 1..MaxChunkSize
                         ELSE {chunk_size}
    /\ sa_session = Session(<<>>, <<>>, 0)
    /\ loaded = <<>>
    /\ num_events = 0
    /\ lstatus = "running"
    /\ DESTINATION_DB = <<>>
    /\ cell_pc = 0
    /\ CacheInit(maxsize, {TRUE})
    /\ source_gen = <<>>
    /\ chunk_n = chunk_size
    /\ batched = <<>>
    /\ batch_input = <<>>
    /\ batch_done = TRUE
    /\ TreeIdle
    /\ GenIdle

loadFixed == <<cache, trace, misses_first, cell_pc, thr, batchVars, treeVars,
               etl_input, gen_raises, f_loader, max_chunk_size, genVars>>

(* for item in iter_transformer: k = str(item[0]); v = item[1]; db[k] = v  *)
loader_item ==
    /\ f_loader = "loader" /\ lstatus = "running"
    /\ LET item == next_event(events_gen, gen_raises)
       IN  IF item.ok
           THEN /\ DESTINATION_DB' = loader(<<item.value>>, DESTINATION_DB)
                /\ events_gen' = Tail(events_gen)
                /\ lstatus' = lstatus
           ELSE /\ lstatus' = IF item.error = "StopIteration" THEN "returned"
                              ELSE item.error
                /\ UNCHANGED <<DESTINATION_DB, events_gen>>
    /\ UNCHANGED <<sa_session, loaded, num_events, loadFixed>>

(* for event in events: session.add(event); num_events += 1                *)
(* session.flush(); return num_events                                      *)
naive_loader ==
    /\ f_loader = "naive_loader" /\ lstatus = "running"
    /\ LET event == next_event(events_gen, gen_raises)
       IN  IF event.ok
           THEN /\ sa_session' = session_add(sa_session, event.value)
                /\ num_events' = num_events + 1
                /\ events_gen' = Tail(events_gen)
                /\ lstatus' = lstatus
           ELSE IF event.error # "StopIteration"
           THEN /\ lstatus' = event.error
                /\ UNCHANGED <<sa_session, num_events, events_gen>>
           ELSE /\ \E flushed \in flush(sa_session) :
                      /\ sa_session' = flushed.session
                      /\ lstatus' = IF flushed.ok THEN "returned" ELSE flushed.error
                /\ UNCHANGED <<num_events, events_gen>>
    /\ UNCHANGED <<DESTINATION_DB, loaded, loadFixed>>

(* for event in events: session.add(event); session.flush([event]);        *)
(* num_events += 1                                                         *)
(* return num_events                                                       *)
individual_flush_loader ==
    /\ f_loader = "individual_flush_loader" /\ lstatus = "running"
    /\ LET event == next_event(events_gen, gen_raises)
       IN  IF event.ok
           THEN /\ \E flushed \in flush(session_add(sa_session, event.value)) :
                      /\ sa_session' = flushed.session
                      /\ lstatus' = IF flushed.ok THEN lstatus ELSE flushed.error
                      /\ num_events' = IF flushed.ok THEN num_events + 1 ELSE num_events
                /\ events_gen' = Tail(events_gen)
           ELSE /\ lstatus' = IF event.error = "StopIteration" THEN "returned"
                              ELSE event.error
                /\ UNCHANGED <<sa_session, num_events, events_gen>>
    /\ UNCHANGED <<DESTINATION_DB, loaded, loadFixed>>

(* for chunk in chunked(events, max_chunk_size): the chunk is handed to    *)
(* the session as one bulk write ...                                       *)
chunked_loader_next ==
    /\ f_loader = "chunked_loader" /\ lstatus = "running"
    /\ sa_session.new = <<>>
    /\ LET chunk == next_chunk(max_chunk_size, events_gen, gen_raises)
       IN  IF ~chunk.ok
           THEN /\ lstatus' = chunk.error
                /\ events_gen' = <<>>
                /\ UNCHANGED <<sa_session, loaded>>
           ELSE IF is_sentinel(chunk.value)
           THEN /\ lstatus' = "returned"
                /\ UNCHANGED <<sa_session, loaded, events_gen>>
           ELSE /\ sa_session' = bulk_save(sa_session, chunk.value)
                /\ loaded' = Append(loaded, chunk.value)
                /\ events_gen' = consumed(max_chunk_size, events_gen)
                /\ lstatus' = lstatus
    /\ UNCHANGED <<DESTINATION_DB, num_events, loadFixed>>

(* ... and flushed: session.flush(); num_events += len(chunk)              *)
chunked_loader_flush ==
    /\ f_loader = "chunked_loader" /\ lstatus = "running"
    /\ sa_session.new # <<>>
    /\ \E flushed \in flush(sa_session) :
          /\ sa_session' = flushed.session
          /\ lstatus' = IF flushed.ok THEN lstatus ELSE flushed.error
          /\ num_events' = IF flushed.ok THEN num_events + Len(sa_session.new)
                           ELSE num_events
    /\ UNCHANGED <<DESTINATION_DB, events_gen, loaded, loadFixed>>

(* What the call of the loader returned: loader has no return statement.   *)
return_value == IF f_loader = "loader" THEN <<>> ELSE <<num_events>>

NextLoad ==
    \/ loader_item
    \/ naive_loader
    \/ individual_flush_loader
    \/ chunked_loader_next
    \/ chunked_loader_flush

SpecLoad == InitLoad /\ [][NextLoad]_vars

Squares(n) == [i \in 1..n |-> <<i, i * i>>]

Sizes(chunks) == [i \in 1..Len(chunks) |-> Len(chunks[i])]

ExpectedChunk(i) ==
    SubSeq(transformer(etl_input), (i - 1) * max_chunk_size + 1,
           Min(i * max_chunk_size, Len(etl_input)))

GenFrame(f, arg) ==
    [f |-> f, arg |-> arg, x |-> 0, at |-> "start", run |-> "idle", out |-> <<>>,
     produced |-> 0]

squares_as_list(max_n) == [i \in 1..(IF max_n >= 1 THEN max_n ELSE 0) |-> i * i]

SourceGens == {"squares_as_generator", "f_A", "extractor"}

(* x = 1 at the start, x = x + 1 after a yield; the list iterator of the   *)
(* extractor moves to the next position.                                   *)
next_x(frame) == IF frame.at = "start" THEN 1 ELSE frame.x + 1

(* while x < max_n / while x < n / for item in source_data                 *)
loop_test(frame, x) ==
    IF frame.f = "extractor" THEN x <= Len(frame.arg) ELSE x < frame.arg

(* yield x * x / yield item                                                *)
source_value(frame, x) == IF frame.f = "extractor" THEN frame.arg[x] ELSE x * x

(* yield y + 10000 / yield "'myprefix " + str(z) + "'" / the transformers  *)
stage_value(frame, v) ==
    CASE frame.f = "f_B" -> v + 10000
      [] frame.f = "f_C" -> "'myprefix " \o ToString(v) \o "'"
      [] frame.f = "transformer" -> transformer(<<v>>)[1]
      [] OTHER -> partial_transform(frame.arg, <<v>>)[1]

(* the next() calls of the cell on another_gen                             *)
next_calls == 5

Consumer(kind) ==
    [kind |-> kind, next_left |-> IF kind = "next" THEN next_calls ELSE 0,
     pc |-> "ready"]

Duplicates == <<3, 1, 3, 2, 1>>

Chains ==
    {[gens |-> <<GenFrame("squares_as_generator", n)>>, main |-> Consumer(kind)] :
        n \in 0..MaxN, kind \in {"for", "next"}}
    \cup {[gens |-> <<GenFrame("f_A", n), GenFrame("f_B", <<>>)>>,
           main |-> Consumer("for")] : n \in 0..MaxN}
    \cup {[gens |-> <<GenFrame("f_A", n), GenFrame("f_B", <<>>), GenFrame("f_C", <<>>)>>,
           main |-> Consumer("for")] : n \in 0..MaxN}
    \cup {[gens |-> <<GenFrame("extractor", src), GenFrame("transformer", <<>>)>>,
           main |-> Consumer("loader")] : src \in {SOURCE_DATA, Duplicates, <<>>}}
    \cup {[gens |-> <<GenFrame("extractor", src),
                      GenFrame("tranform_func_with_config", config)>>,
           main |-> Consumer(kind)] :
              src \in {SOURCE_DATA, Duplicates}, config \in {config_1, config_2},
              kind \in {"for", "loader"}}

InitChain ==
    /\ \E chain \in Chains :
          /\ gens = chain.gens
          /\ main = chain.main
    /\ printed = <<>>
    /\ DESTINATION_DB = <<>>
    /\ cell_pc = 0
    /\ CacheInit(maxsize, {TRUE})
    /\ BatchIdle

chainFixed == <<cache, trace, misses_first, cell_pc, thr, batchVars, treeVars, etlVars>>

BugRunsAhead(frame) ==
    \/ frame.run = "resumed"
    \/ frame.run = "idle" /\ frame.at = "yield" /\ frame.out = <<>>

(* A generator's code runs when next() is called on it, up to its yield.   *)
resumed(frame) == frame.run = "resumed"

(* for r in gen: / next(another_gen) / for item in iter_transformer:       *)
main_next ==
    /\ gens # <<>> /\ main.pc = "ready"
    /\ gens' = [gens EXCEPT ![Len(gens)].run = "resumed"]
    /\ main' = [main EXCEPT !.pc = "waiting"]
    /\ UNCHANGED <<printed, DESTINATION_DB, chainFixed>>

(* The generator runs on from where it is suspended: a source generator    *)
(* to its next yield or its end, a chained one to the next() of the        *)
(* iterator it loops over.                                                 *)
gen_resume(i) ==
    /\ resumed(gens[i])
    /\ LET frame == gens[i]
           x == next_x(frame)
       IN  IF frame.at = "done"
           THEN gens' = [gens EXCEPT ![i].run = "idle"]
           ELSE IF frame.f \notin SourceGens
           THEN gens' = [gens EXCEPT ![i].run = "waiting", ![i - 1].run = "resumed"]
           ELSE IF loop_test(frame, x)
           THEN gens' = [gens EXCEPT ![i] =
                            [frame EXCEPT !.x = x, !.at = "yield", !.run = "idle",
                                          !.out = <<source_value(frame, x)>>,
                                          !.produced = @ + 1]]
           ELSE gens' = [gens EXCEPT ![i] =
                            [frame EXCEPT !.x = x, !.at = "done", !.run = "idle"]]
    /\ UNCHANGED <<main, printed, DESTINATION_DB, chainFixed>>

(* The next() of the iterator returned: the loop body runs to its yield,   *)
(* or the loop ends with the iterator.                                     *)
gen_receive(i) ==
    /\ i > 1
    /\ gens[i].run = "waiting" /\ gens[i - 1].run = "idle"
    /\ IF gens[i - 1].out # <<>>
       THEN gens' = [gens EXCEPT
                        ![i - 1].out = <<>>,
                        ![i] = [gens[i] EXCEPT
                                  !.out = <<stage_value(gens[i], gens[i - 1].out[1])>>,
                                  !.at = "yield", !.run = "idle",
                                  !.produced = @ + 1]]
       ELSE gens' = [gens EXCEPT ![i].at = "done", ![i].run = "idle"]
    /\ UNCHANGED <<main, printed, DESTINATION_DB, chainFixed>>

(* print(r) / print(next(another_gen)) / the body of the loader's loop;    *)
(* StopIteration ends a for loop and is an exception of a next() call.     *)
main_receive ==
    /\ main.pc = "waiting" /\ gens[Len(gens)].run = "idle"
    /\ LET top == gens[Len(gens)]
       IN  IF top.out # <<>>
           THEN /\ printed' = Append(printed, top.out[1])
                /\ gens' = [gens EXCEPT ![Len(gens)].out = <<>>]
                /\ DESTINATION_DB' = IF main.kind = "loader"
                                     THEN loader(<<top.out[1]>>, DESTINATION_DB)
                                     ELSE DESTINATION_DB
                /\ main' = IF main.kind = "next"
                           THEN [main EXCEPT !.next_left = @ - 1,
                                             !.pc = IF main.next_left = 1 THEN "done"
                                                    ELSE "ready"]
                           ELSE [main EXCEPT !.pc = "ready"]
           ELSE /\ main' = [main EXCEPT !.pc = IF main.kind = "next"
                                                THEN "StopIteration" ELSE "done"]
                /\ UNCHANGED <<printed, gens, DESTINATION_DB>>
    /\ UNCHANGED chainFixed

NextChain ==
    \/ main_next
    \/ \E i \in 1..Len(gens) : gen_resume(i)
    \/ \E i \in 1..Len(gens) : gen_receive(i)
    \/ main_receive

SpecChain == InitChain /\ [][NextChain]_vars

(* What the consumer of generator i has taken from it.                     *)
Taken(i) == IF i = Len(gens) THEN Len(printed) ELSE gens[i + 1].produced

ConsumerWaits(i) ==
    IF i = Len(gens) THEN main.pc = "waiting" ELSE gens[i + 1].run = "waiting"

(***************************************************************************)
(* C21. Evaluation is lazy and pull-based: a generator of a chain runs     *)
(* only while its consumer waits for its next element, so it has never     *)
(* produced more than one element that its consumer has not taken, and k   *)
(* next() calls on a fresh generator compute its first k elements and no   *)
(* more; five next() calls on squares_as_generator(10) return 1, 4, 9, 16, *)
(* 25.                                                                     *)
(***************************************************************************)
C21_LazyPull ==
    /\ \A i \in 1..Len(gens) :
          /\ gens[i].produced - Taken(i) \in {0, 1}
          /\ gens[i].out # <<>> <=> gens[i].produced - Taken(i) = 1
          /\ gens[i].out # <<>> => ConsumerWaits(i)
          /\ gens[i].run # "idle" => ConsumerWaits(i)
    /\ Cardinality({i \in 1..Len(gens) : gens[i].run = "resumed"}) <= 1
    /\ main.kind = "next" =>
          /\ gens[1].produced <= next_calls - main.next_left
                                   + (IF main.pc = "waiting" THEN 1 ELSE 0)
          /\ printed = SubSeq(squares_as_list(next_calls), 1, Len(printed))
    /\ (main.kind = "next" /\ main.pc = "done" /\ gens[1].arg = 10) =>
          /\ printed = <<1, 4, 9, 16, 25>>
          /\ gens[1].produced = 5
          /\ gens[1].x = 5
          /\ gens[1].at = "yield"

C21_Witness ==
    /\ Len(gens) = 1
    /\ gens[1].f = "squares_as_generator" /\ gens[1].arg = 10
    /\ main.kind = "next" /\ main.pc = "done"
    /\ printed = <<1, 4, 9, 16, 25>>
    /\ gens[1].produced = 5

(***************************************************************************)
(* C23 as stated. Iterating squares_as_generator(max_n) to exhaustion      *)
(* yields the elements of squares_as_list(max_n), in the same order: the   *)
(* squares of 1..max_n, 10 of them for max_n = 10.                         *)
(***************************************************************************)
C23_AsStated ==
    (/\ Len(gens) = 1
     /\ gens[1].f = "squares_as_generator"
     /\ main.kind = "for" /\ main.pc = "done")
        => /\ printed = squares_as_list(gens[1].arg)
           /\ gens[1].arg = 10 => Len(printed) = 10

RECURSIVE FirstOccurrences(_)
FirstOccurrences(s) ==
    IF s = <<>> THEN <<>>
    ELSE LET front == FirstOccurrences(SubSeq(s, 1, Len(s) - 1))
         IN  IF s[Len(s)] \in Range(front) THEN front ELSE Append(front, s[Len(s)])

IsSimplePipeline ==
    /\ Len(gens) = 2
    /\ gens[1].f = "extractor" /\ gens[2].f = "transformer"
    /\ main.kind = "loader"

(***************************************************************************)
(* C24. loader(transformer(extractor(source)), db) on an empty db takes    *)
(* the source records in their order, each once, and leaves db with one    *)
(* entry str(n) -> n * n per distinct record n, in the order of first      *)
(* occurrence, and nothing else; the source list is not changed.           *)
(***************************************************************************)
C24_SimplePipeline ==
    /\ [](IsSimplePipeline =>
            LET src == gens[1].arg
                seen == SubSeq(src, 1, Len(printed))
            IN  /\ Len(printed) <= Len(src)
                /\ printed = [i \in 1..Len(printed) |-> <<src[i], src[i] * src[i]>>]
                /\ DESTINATION_DB =
                      [i \in 1..Len(FirstOccurrences(seen)) |->
                          [k |-> ToString(FirstOccurrences(seen)[i]),
                           v |-> FirstOccurrences(seen)[i] * FirstOccurrences(seen)[i]]]
                /\ main.pc = "done" => Len(printed) = Len(src))
    /\ [][IsSimplePipeline => gens'[1].arg = gens[1].arg]_vars

C24_Witness ==
    /\ IsSimplePipeline
    /\ gens[1].arg = SOURCE_DATA
    /\ main.pc = "done"
    /\ Len(DESTINATION_DB) = 13
    /\ DESTINATION_DB[13] = [k |-> "14", v |-> 196]

IsConfiguredPipeline ==
    /\ Len(gens) = 2
    /\ gens[1].f = "extractor" /\ gens[2].f = "tranform_func_with_config"

(* The pair the spec gives for element x under each configuration of the   *)
(* notebook: translation first, then scaling, then the cast.               *)
ConfiguredPair(config, x) ==
    IF config = config_1 THEN <<x, 2 * (x + 1)>>
    ELSE <<x, ToString((-1) * (x + 0))>>

(***************************************************************************)
(* C27. tranform_func_with_config yields one pair per input element, in    *)
(* order: (x, cast_func(scale * (x + translate))), translation before      *)
(* scaling, with the defaults translate = 0, scale = 1, cast_func = int.   *)
(* A functools.partial over a configuration behaves as the function called *)
(* with those keyword arguments, and process(extractor, transform_i,       *)
(* loader) leaves DESTINATION_DB with str(x) -> that value for every x of  *)
(* SOURCE_DATA.                                                            *)
(***************************************************************************)
C27_ConfiguredTransform ==
    /\ partial_transform(config_1, SOURCE_DATA)
          = tranform_func_with_config(SOURCE_DATA, 1, 2, "int")
    /\ partial_transform(config_2, SOURCE_DATA)
          = tranform_func_with_config(SOURCE_DATA, 0, -1, "str")
    /\ IsConfiguredPipeline =>
          LET src == gens[1].arg
              config == gens[2].arg
          IN  /\ Len(printed) <= Len(src)
              /\ printed = [i \in 1..Len(printed) |-> ConfiguredPair(config, src[i])]
              /\ main.pc = "done" => Len(printed) = Len(src)
              /\ (main.kind = "loader" /\ main.pc = "done" /\ src = SOURCE_DATA) =>
                    /\ DESTINATION_DB =
                          [i \in 1..Len(SOURCE_DATA) |->
                              [k |-> ToString(SOURCE_DATA[i]),
                               v |-> ConfiguredPair(config, SOURCE_DATA[i])[2]]]
                    /\ DESTINATION_DB = process(config, <<>>)

C27_Witness ==
    /\ IsConfiguredPipeline
    /\ gens[1].arg = SOURCE_DATA /\ gens[2].arg = config_1
    /\ main.kind = "loader" /\ main.pc = "done"
    /\ DbGet(DESTINATION_DB, "14") = 30
    /\ DbGet(DESTINATION_DB, "1") = 4

(***************************************************************************)
(* cached_session_lookup while the store it reads is rewritten, with       *)
(* cache_info() calls in between.  The trace also records the cache_info   *)
(* calls (outcome "info", the tuple as result) and the writes to           *)
(* DESTINATION_DB (outcome "write").                                       *)
(***************************************************************************)
StoreCapacities == {1, maxsize}

InitStore ==
    /\ cell_pc = 0
    /\ \E m \in StoreCapacities : CacheInit(m, {TRUE})
    /\ DESTINATION_DB = DbAfterConfig2
    /\ BatchIdle
    /\ GenIdle

storeFixed == <<misses_first, cell_pc, thr, batchVars, treeVars, etlVars, genVars>>

CacheInfo(c) ==
    [hits |-> c.hits, misses |-> c.misses, maxsize |-> c.maxsize,
     currsize |-> Len(c.entries)]

BugInfoCountsAsHit(c) == [c |-> [c EXCEPT !.hits = @ + 1], info |-> CacheInfo(c)]

(* One call of cache_info(): the cache afterwards and the tuple returned.  *)
cache_info(c) == [c |-> c, info |-> CacheInfo(c)]

session_cache_info ==
    /\ Len(trace) < MaxLookups
    /\ LET fn == "cached_session_lookup"
           done == cache_info(cache[fn])
       IN  /\ cache' = [cache EXCEPT ![fn] = done.c]
           /\ trace' = Append(trace, Call(fn, <<>>, "info", "", done.info, <<>>, FALSE))
    /\ UNCHANGED <<DESTINATION_DB, storeFixed>>

StoreIdx == {"1", "2"}

store_lookup ==
    /\ Len(trace) < MaxLookups
    /\ \E idx \in StoreIdx : DoCall("cached_session_lookup", <<PyStr(idx)>>)
    /\ UNCHANGED <<DESTINATION_DB, storeFixed>>

Write(statement) == Call(statement, <<>>, "write", "", <<>>, <<>>, FALSE)

db_clear ==
    /\ Len(trace) < MaxLookups
    /\ DESTINATION_DB' = <<>>
    /\ trace' = Append(trace, Write("DESTINATION_DB.clear"))
    /\ UNCHANGED <<cache, storeFixed>>

Configs == [transform_1 |-> config_1, transform_2 |-> config_2]

process_run ==
    /\ Len(trace) < MaxLookups
    /\ \E t \in DOMAIN Configs :
          /\ DESTINATION_DB' = process(Configs[t], DESTINATION_DB)
          /\ trace' = Append(trace, Write(t))
    /\ UNCHANGED <<cache, storeFixed>>

NextStore == store_lookup \/ session_cache_info \/ db_clear \/ process_run

SpecStore == InitStore /\ [][NextStore]_vars

IsLookup(e) == e.outcome \in {"hit", "miss", "raise"}

(* The cache and the store after the first n records of the trace when the *)
(* cache_info() calls among them are left out.                             *)
RECURSIVE WithoutInfo(_)
WithoutInfo(n) ==
    IF n = 0
    THEN [c |-> lru_cache(cache["cached_session_lookup"].maxsize),
          db |-> DbAfterConfig2]
    ELSE LET prev == WithoutInfo(n - 1)
             e == trace[n]
         IN  CASE e.outcome = "info" -> prev
               [] e.outcome = "write" ->
                     [prev EXCEPT !.db = IF e.fn = "DESTINATION_DB.clear" THEN <<>>
                                         ELSE process(Configs[e.fn], prev.db)]
               [] OTHER ->
                     [prev EXCEPT !.c = lru_wrapper(e.fn, e.args, prev.c, prev.db,
                                                    misses_first).c]

(***************************************************************************)
(* C22. cache_info() is free of side effects: a call of it changes none of *)
(* hits, misses, the current size, the stored entries and their recency    *)
(* order, nor the store, and it reports the counters as they are; so the   *)
(* cache, and the hit, miss and eviction outcome of every call, are what   *)
(* they would be had cache_info() never been called.                       *)
(***************************************************************************)
C22_InfoHasNoEffect ==
    /\ [](/\ cache["cached_session_lookup"] = WithoutInfo(Len(trace)).c
          /\ DESTINATION_DB = WithoutInfo(Len(trace)).db
          /\ \A n \in 1..Len(trace) :
                LET e == trace[n]
                    before == WithoutInfo(n - 1)
                IN  /\ IsLookup(e) =>
                          LET same == lru_wrapper(e.fn, e.args, before.c, before.db,
                                                  misses_first).call
                          IN  /\ e.outcome = same.outcome
                              /\ e.evicted = same.evicted
                              /\ e.invoked = same.invoked
                    /\ e.outcome = "info" => e.result = CacheInfo(before.c))
    /\ [][(Len(trace') > Len(trace) /\ trace'[Len(trace')].outcome = "info")
            => cache' = cache /\ DESTINATION_DB' = DESTINATION_DB]_vars

(* cache_info() was called between a miss and a hit of the same key, and   *)
(* again before a miss that evicted it.                                    *)
C22_Witness ==
    \E i, j, k, l, m \in 1..Len(trace) :
        /\ i < j /\ j < k /\ k < l /\ l < m
        /\ trace[i].outcome = "miss"
        /\ trace[j].outcome = "info" /\ trace[j].result.misses = 1
        /\ trace[k].outcome = "hit" /\ trace[k].args = trace[i].args
        /\ trace[l].outcome = "info" /\ trace[l].result.hits = 1
        /\ trace[m].outcome = "miss" /\ trace[m].evicted = <<trace[i].args>>

(* The result of the call that stored the entry which call i found.        *)
StoredResult(i) ==
    trace[Max({j \in 1..(i - 1) : /\ trace[j].outcome = "miss"
                                   /\ trace[j].args = trace[i].args})].result

Repr(v) == ToString(v)

Stored(c, key) == KeyIndex(c.entries, key) # 0

IsCallOf(key) ==
    /\ Len(trace') = Len(trace) + 1
    /\ IsLookup(trace'[Len(trace')])
    /\ trace'[Len(trace')].args = key

(***************************************************************************)
(* C26. Writes to the store never invalidate the cache: clearing           *)
(* DESTINATION_DB or running process again, which overwrites db[idx],      *)
(* leaves the cache as it is, and as long as the entry of idx is stored    *)
(* cached_session_lookup(idx) returns the value it stored, without         *)
(* querying the session, whatever the store holds by then; only after the  *)
(* entry is evicted does a call query the session again.                   *)
(***************************************************************************)
C26_WritesDoNotInvalidate ==
    /\ [](\A i \in 1..Len(trace) :
            /\ trace[i].outcome = "hit" =>
                  /\ ~trace[i].invoked
                  /\ Repr(trace[i].result) = Repr(StoredResult(i))
            /\ (IsLookup(trace[i]) /\ trace[i].invoked) =>
                  trace[i].args \notin StoredBefore(trace[i].fn, i))
    /\ [][(Len(trace') > Len(trace) /\ trace'[Len(trace')].outcome = "write")
            => cache' = cache]_vars
    /\ [][\A idx \in StoreIdx :
            LET c == cache["cached_session_lookup"]
                key == <<PyStr(idx)>>
            IN  (Stored(c, key) /\ IsCallOf(key)) =>
                   /\ trace'[Len(trace')].outcome = "hit"
                   /\ ~trace'[Len(trace')].invoked
                   /\ Repr(trace'[Len(trace')].result)
                         = Repr(c.entries[KeyIndex(c.entries, key)].result)]_vars

(* "1" was looked up, then the store was cleared and loaded again with     *)
(* other values, and the next lookup of "1" returned the old value.        *)
C26_Witness ==
    \E i, j, k, l \in 1..Len(trace) :
        /\ i < j /\ j < k /\ k < l
        /\ trace[i].outcome = "miss" /\ trace[i].args = <<PyStr("1")>>
        /\ trace[j].fn = "DESTINATION_DB.clear"
        /\ trace[k].fn = "transform_1"
        /\ trace[l].outcome = "hit" /\ trace[l].args = <<PyStr("1")>>
        /\ trace[l].result = "-1"
        /\ DbGet(DESTINATION_DB, "1") = 4

CallsOf(fn) == {i \in 1..Len(trace) : trace[i].fn = fn}

Returning(fn) == {i \in CallsOf(fn) : trace[i].outcome \in {"hit", "miss"}}

Invocations(fn) == {i \in CallsOf(fn) : trace[i].invoked}

InvocationsOf(fn, key) == {i \in Invocations(fn) : trace[i].args = key}

KeysUsed(fn) == {trace[i].args : i \in {j \in CallsOf(fn) : trace[j].error # "RuntimeError"}}

SessionLookups(idxs) == [i \in 1..Len(idxs) |-> <<PyStr(idxs[i])>>]

(***************************************************************************)
(* C25 as stated. In every reachable state of a cache, hits + misses is    *)
(* the number of completed calls and misses is the number of invocations   *)
(* of the wrapped function; while the distinct keys used do not exceed the *)
(* capacity the function is invoked exactly once per distinct key.         *)
(***************************************************************************)
C25_AsStated ==
    \A fn \in {"broken_session_lookup", "cached_session_lookup"} :
        /\ cache[fn].hits + cache[fn].misses = Cardinality(Returning(fn))
        /\ cache[fn].misses = Cardinality(Invocations(fn))
        /\ Cardinality(KeysUsed(fn)) <= cache[fn].maxsize =>
              \A key \in KeysUsed(fn) : Cardinality(InvocationsOf(fn, key)) = 1

(***************************************************************************)
(* C25 as amended. hits is the number of calls answered from the cache,    *)
(* and misses the number of calls whose computation returned a value plus, *)
(* on the interpreter builds that count a miss before they call the        *)
(* function, the calls whose computation raised; a call whose key cannot   *)
(* be hashed is counted nowhere. So as long as no computation has raised,  *)
(* hits + misses is the number of completed calls and misses the number of *)
(* invocations. While the distinct keys used do not exceed the capacity, a *)
(* key whose computation returned has been computed exactly once, and a    *)
(* key whose computation raises is computed again at every call. The       *)
(* lookups "1", "2", "2", "1", "1" on cached_session_lookup (maxsize 4)    *)
(* query the session twice and leave hits = 3, misses = 2, size 2.         *)
(***************************************************************************)
C25_Counters ==
    /\ \A fn \in {"broken_session_lookup", "cached_session_lookup"} :
          LET c == cache[fn]
              hit == {i \in CallsOf(fn) : trace[i].outcome = "hit"}
              miss == {i \in CallsOf(fn) : trace[i].outcome = "miss"}
              failed == {i \in Invocations(fn) : trace[i].outcome = "raise"}
              unhashable == {i \in CallsOf(fn) : trace[i].error = "RuntimeError"}
          IN  /\ c.hits = Cardinality(hit)
              /\ c.misses = Cardinality(miss)
                              + (IF misses_first THEN Cardinality(failed) ELSE 0)
              /\ Invocations(fn) = miss \cup failed
              /\ unhashable \cap (hit \cup miss \cup failed) = {}
              /\ failed = {} =>
                    /\ c.hits + c.misses = Cardinality(Returning(fn))
                    /\ c.misses = Cardinality(Invocations(fn))
              /\ Cardinality(KeysUsed(fn)) <= c.maxsize =>
                    \A key \in KeysUsed(fn) :
                       LET calls == {i \in CallsOf(fn) : trace[i].args = key}
                       IN  IF \E i \in calls : trace[i].outcome = "miss"
                           THEN Cardinality(InvocationsOf(fn, key)) = 1
                           ELSE InvocationsOf(fn, key) = calls
    /\ (/\ cache["cached_session_lookup"].maxsize = maxsize
        /\ TraceArgs = SessionLookups(<<"1", "2", "2", "1", "1">>)) =>
          /\ Cardinality(Invocations("cached_session_lookup")) = 2
          /\ cache["cached_session_lookup"].hits = 3
          /\ cache["cached_session_lookup"].misses = 2
          /\ Len(cache["cached_session_lookup"].entries) = 2

C25_Witness ==
    /\ cache["cached_session_lookup"].maxsize = maxsize
    /\ TraceArgs = SessionLookups(<<"1", "2", "2", "1", "1">>)
    /\ cache["cached_session_lookup"].hits = 3
    /\ cache["cached_session_lookup"].misses = 2

(***************************************************************************)
(* C28 as stated. For every finite tree the traversal, consumed to         *)
(* exhaustion, terminates having visited each node reachable through       *)
(* slug-bearing children exactly once: it returns, and each event of each  *)
(* reachable node has been emitted once, a finite number in all.           *)
(***************************************************************************)
C28_AsStated ==
    Ended =>
        /\ tstatus = "done"
        /\ Len(events) = Len(Preorder(root, root_path))
        /\ \A e \in Range(Preorder(root, root_path)) :
              Cardinality({i \in 1..Len(events) : events[i] = e}) = 1

====
